---- MODULE Spec2Model ----
(***************************************************************************)
(* The ledger core of eco-ledger-chain.  The repository holds two          *)
(* alternative ledger services, both listening on port 5006:               *)
(*   - backend/ledger_service/app.py            (service = "app")          *)
(*   - backend/ledger_service/blockchain_api.py (service = "sim",          *)
(*     class BlockchainSimulator)                                          *)
(* One behaviour of the model runs one of the two.  Every SQLite commit of *)
(* the code is one step of the model: what an external reader can observe  *)
(* is exactly the sequence of states of the store variables.               *)
(*                                                                         *)
(* Three specifications:                                                   *)
(*   Spec        the ledger service serving its state-changing requests    *)
(*   SpecStats   the ledger service serving one call of its statistics     *)
(*               route beside a state-changing request                     *)
(*   SpecReview  backend/ai_apis/dynamic_dataset_api.py: verifications and *)
(*               their admin review, which posts to the ledger's           *)
(*               /ledger/issue                                             *)
(***************************************************************************)
EXTENDS Integers, Sequences, FiniteSets, TLC

VARIABLES
    service,               \* which ledger service runs: "app" or "sim"
    entry,                 \* how it was started: "main" (run as a script) or "wsgi" (imported)
    phase,                 \* "starting" (before app.run) or "serving"
    blocks,                \* table blocks
    transactions,          \* table transactions
    verification_reports,  \* table verification_reports (blockchain_api.py)
    carbon_credits,        \* table carbon_credits
    credit_transfers,      \* table credit_transfers (app.py)
    lock,                  \* BlockchainSimulator.lock: 0 when free, else the holding request
    req,                   \* per request: position in the handler and its live locals
    response,              \* the response the last step returned, if it returned one
                           \* (the statistics route's answer is StatsResult)
    stats,                 \* the statistics call: its position and what it has read
    verifications,         \* table verifications (dynamic_dataset_api.py)
    admin,                 \* per /admin/approve call: position in the handler and locals
    posts                  \* the POST /ledger/issue requests sent, in the order sent

vars == <<service, entry, phase, blocks, transactions, verification_reports,
          carbon_credits, credit_transfers, lock, req, response, stats,
          verifications, admin, posts>>

store == <<blocks, transactions, verification_reports, carbon_credits, credit_transfers>>
deployment == <<service, entry, phase>>
review == <<verifications, admin, posts>>

(***************************************************************************)
(* Bounds                                                                  *)
(***************************************************************************)
MaxReqs == 2       \* requests served in one behaviour; request r's uuid4 values are r
MaxAmount == 2     \* largest credit amount a request may name

Ids == 1..MaxReqs
\* The database file outlives the process (init_database and _init_database create
\* the tables only IF NOT EXISTS): a run starts on a fresh store or on the store an
\* earlier run left.  The earlier run's requests are numbered 0 and below.
CreditIds == 0..MaxReqs                    \* the credit ids a request may name
ReportIds == {0 - 1} \cup Ids              \* the report ids a request may name
Entities == {"ngoA", "ngoB"}
ecoledger_system == "ecoledger_system"

\* An optional value (None / SQL NULL / a missing JSON value) is <<>>, a present one <<v>>.
None == <<>>
Some(v) == <<v>>
\* the amounts a request may carry: null, negative, zero, positive
AmountInputs == {None} \cup {Some(n) : n \in (0 - 1)..MaxAmount}

(***************************************************************************)
(* JSON.  A value is a dict or a list; a dict keeps its <<key, value>>     *)
(* items in insertion order, as Python's dict does.  json.dumps writes the *)
(* items in that order, or in the order of the keys with sort_keys=True;   *)
(* json.loads reads them back in the order of the text.  The text of a     *)
(* serialization is modelled by the value it spells out.                   *)
(***************************************************************************)
Dict(items) == [kind |-> "dict", items |-> items]
List == [kind |-> "list", items |-> <<>>]
IsObject(value) == value.kind = "dict"
Items(dict) == {dict.items[i] : i \in DOMAIN dict.items}

\* the keys of the dicts of the two services, in the order sorted() gives them
KeyOrder == <<"Carbon_Credits", "Final_Score", "action", "amount", "block_number",
              "credit_id", "credits_amount", "data", "data_hash", "from", "from_ngo",
              "message", "ngo_id", "previous_hash", "report_id", "to", "to_company",
              "transactions", "transfer_id", "tx_id", "type", "verification_data">>
Rank(key) == CHOOSE i \in DOMAIN KeyOrder : KeyOrder[i] = key

\* the items of a dict in the order of their keys
SortKeys(dict) ==
    [dict EXCEPT !.items =
        [i \in DOMAIN dict.items |->
            CHOOSE item \in Items(dict) :
                Cardinality({o \in Items(dict) : Rank(o[1]) < Rank(item[1])}) = i - 1]]

json_dumps(value) == <<"json", value>>
json_dumps_sorted(value) == <<"json", SortKeys(value)>>
json_loads(text) == text[2]

\* dict.get(key): the value, or None
dict_get(dict, key) ==
    IF \E item \in Items(dict) : item[1] = key
       THEN Some((CHOOSE item \in Items(dict) : item[1] = key)[2])
       ELSE None

\* verification payloads: two dicts with the same items in different orders, and a
\* JSON array (not a mapping)
Payloads == {Dict(<<<<"Final_Score", 1>>, <<"Carbon_Credits", 2>>>>),
             Dict(<<<<"Carbon_Credits", 2>>, <<"Final_Score", 1>>>>),
             List}
NoPayload == Dict(<<>>)

(***************************************************************************)
(* Hashing.  SHA-256 is modelled as collision free: the digest of a        *)
(* serialization is the tagged serialization itself.  Every item that is   *)
(* serialized is a tagged tuple.  Wall-clock timestamps are not modelled;  *)
(* the uuid4 values of a request are derived from the request's number.    *)
(***************************************************************************)
sha256(serialization) == <<"sha256", serialization>>
str(n) == <<"int", n>>
uuid4(id) == <<"uuid", id>>
SENTINEL == <<"0">>

\* app.py: calculate_hash(*data) hashes the concatenation of str(d)
calculate_hash(data) == sha256(<<"concat", data>>)
\* blockchain_api.py: _calculate_hash(data) hashes json.dumps(data, sort_keys=True)
\* of a dict (a list has no encode(): the callers turn it down before)
_calculate_hash(data) == sha256(json_dumps_sorted(data))

NoReq == [pc |-> "idle", op |-> "none", from |-> "", to |-> "", credit |-> 0,
          report |-> 0, amount |-> None, payload |-> NoPayload, tx_hash |-> None,
          last_block |-> None]
\* result: "ok", or why the request failed (the services answer 4xx/500 with a message):
\* "not_found", "ownership_mismatch", "insufficient", "duplicate_block" (IntegrityError
\* on the block insert), "no_latest_block" (no block to build on), "error" (any other
\* exception, raised on a malformed input)
NoResponse == [op |-> "none", result |-> "none"]

\* A request's record keeps the locals the rest of its handler still reads;
\* Forget drops the others (a local that is never read again decides nothing).
Forget(q) == [NoReq EXCEPT !.pc = q.pc, !.op = q.op, !.last_block = q.last_block,
                           !.payload = q.payload, !.tx_hash = q.tx_hash]

Done == [NoReq EXCEPT !.pc = "done"]
InFlight(r) == req[r].pc \notin {"idle", "done"}

\* the handler returns
Finish(t, res) ==
    /\ req' = [req EXCEPT ![t] = Done]
    /\ response' = [op |-> req[t].op, result |-> res]
\* the handler goes on
Goto(t, pc) ==
    /\ req' = [req EXCEPT ![t].pc = pc]
    /\ response' = NoResponse
GotoForget(t, pc) ==
    /\ req' = [req EXCEPT ![t] = Forget([req[t] EXCEPT !.pc = pc])]
    /\ response' = NoResponse

\* request r arrives (the server gives each request a thread of its own); requests
\* are numbered in the order of their arrival
MayBegin(r) ==
    /\ phase = "serving"
    /\ req[r].pc = "idle"
    /\ \A u \in Ids : u < r => req[u].pc # "idle"

(***************************************************************************)
(* The statistics routes: blockchain_api.py GET /ledger/stats              *)
(* (get_blockchain_stats, which does not take the lock) and app.py         *)
(* GET /ledger/blockchain (get_blockchain_info).  Each runs five SELECTs   *)
(* on one connection.  sqlite3 opens no transaction for a SELECT, so each  *)
(* SELECT reads the store as it is when it runs: each is one step.         *)
(***************************************************************************)

\* SUM over the second components of a set of <<key, amount>> pairs
RECURSIVE SumOfAmounts(_)
SumOfAmounts(pairs) ==
    IF pairs = {} THEN 0
    ELSE LET p == CHOOSE x \in pairs : TRUE
         IN p[2] + SumOfAmounts(pairs \ {p})

\* app.py: SELECT * FROM blocks ORDER BY block_number DESC LIMIT 10
RecentLimit == 10

\* SELECT COUNT(*), SUM(amount) FROM carbon_credits WHERE status = ?  (`or 0` on both)
CountAndSum(status) ==
    LET rows == {c \in carbon_credits : c.status = status}
    IN <<Cardinality(rows), SumOfAmounts({<<c.credit_id, c.amount>> : c \in rows})>>

\* get_blockchain_stats: what its i-th SELECT returns, as the numbers it yields
get_blockchain_stats(i) ==
    CASE i = 1 -> <<Cardinality(blocks)>>
      [] i = 2 -> <<Cardinality(transactions)>>
      [] i = 3 -> <<Cardinality(verification_reports)>>
      [] i = 4 -> CountAndSum("available")
      [] OTHER -> CountAndSum("transferred")

\* get_blockchain_info: what its i-th SELECT returns; of recent_blocks, the number of
\* rows and the number of the newest block (last_block; -1 for None)
get_blockchain_info(i) ==
    CASE i = 1 -> <<Cardinality(blocks)>>
      [] i = 2 -> <<Cardinality({t \in transactions : t.status = "confirmed"})>>
      [] i = 3 -> <<Cardinality(carbon_credits)>>
      [] i = 4 -> <<SumOfAmounts({<<c.credit_id, c.credits_amount>> :
                                   c \in {d \in carbon_credits : d.status = "active"}})>>
      [] OTHER -> <<IF Cardinality(blocks) <= RecentLimit THEN Cardinality(blocks)
                                                          ELSE RecentLimit,
                    IF blocks = {} THEN 0 - 1
                    ELSE CHOOSE n \in {b.block_number : b \in blocks} :
                            \A b \in blocks : b.block_number <= n>>

\* the i-th SELECT of the statistics route of the service that runs
Select(i) == IF service = "app" THEN get_blockchain_info(i) ELSE get_blockchain_stats(i)

\* the statistics of the store as it is: what the five SELECTs return when nothing
\* commits between them
Statistics == Select(1) \o Select(2) \o Select(3) \o Select(4) \o Select(5)

\* stats.next is the number of the SELECT the call runs next: 0 before the call, 6
\* after it; stats.got holds what the call has read.  stats.seen is a history
\* variable: the statistics of the states the store has been in since the call began,
\* those left out that differ from what the call has read already (the call's result
\* cannot be one of them)
NoStats == [next |-> 0, got |-> <<>>, seen |-> {}]
StatsDone == [NoStats EXCEPT !.next = 6]
StatsRunning == stats.next \in 2..5

\* the statistics among `seen` that begin with what the call has read
Matching(seen, got) == {x \in seen : SubSeq(x, 1, Len(got)) = got}

\* a step of a ledger request: the history variable records the store it leaves
Observed ==
    stats' = IF StatsRunning
                THEN [stats EXCEPT !.seen = Matching(@ \cup {Statistics'}, stats.got)]
                ELSE stats

\* the statistics call arrives and runs its first SELECT
Stats_begin ==
    /\ phase = "serving"
    /\ stats.next = 0
    /\ stats' = [next |-> 2, got |-> Select(1), seen |-> {Statistics}]
    /\ UNCHANGED <<deployment, store, lock, req, response, review>>

\* the call runs its next SELECT
Stats_select ==
    /\ stats.next \in 2..4
    /\ LET got == stats.got \o Select(stats.next)
       IN stats' = [next |-> stats.next + 1, got |-> got,
                    seen |-> Matching(stats.seen, got)]
    /\ UNCHANGED <<deployment, store, lock, req, response, review>>

\* what the call returns once it has run its last SELECT
StatsResult == stats.got \o Select(5)

\* the call runs its last SELECT and returns the statistics
Stats_return ==
    /\ stats.next = 5
    /\ stats' = StatsDone
    /\ UNCHANGED <<deployment, store, lock, req, response, review>>

StatsNext == Stats_begin \/ Stats_select \/ Stats_return

(***************************************************************************)
(* app.py.  No handler takes db_lock; each `with sqlite3.connect(...)`     *)
(* block commits on its own, so each is one step and the steps of          *)
(* concurrent requests (Flask serves each request in its own thread)       *)
(* interleave.                                                             *)
(***************************************************************************)

TxType(op) ==
    CASE op = "submit" -> "verification_submission"
      [] op = "issue" -> "credit_issuance"
      [] OTHER -> "credit_transfer"

\* the data dict a handler hands to create_transaction (request t's uuid4 values are
\* t; a missing credits_amount is JSON null)
TxData(t, q) ==
    CASE q.op = "submit" ->
            Dict(<<<<"verification_data", q.payload>>,
                   <<"action", "submit_verification_report">>>>)
      [] q.op = "issue" ->
            Dict(<<<<"credit_id", t>>, <<"credits_amount", q.amount>>,
                   <<"action", "issue_carbon_credits">>>>)
      [] OTHER ->
            Dict(<<<<"transfer_id", t>>, <<"credit_id", q.credit>>,
                   <<"credits_amount", q.amount>>,
                   <<"action", "transfer_carbon_credits">>>>)

FromEntity(q) == IF q.op = "issue" THEN ecoledger_system ELSE q.from
ToEntity(q) == IF q.op = "submit" THEN ecoledger_system ELSE q.to

\* create_transaction's tx_data: the envelope that is hashed; its tx_id is a fresh
\* uuid4 that is stored in no column
tx_data(t, q) ==
    Dict(<<<<"tx_id", uuid4(t)>>, <<"type", TxType(q.op)>>, <<"from", FromEntity(q)>>,
           <<"to", ToEntity(q)>>, <<"data", TxData(t, q)>>>>)

\* tx_hash = calculate_hash(json.dumps(tx_data, sort_keys=True))
TxHash(t, q) == calculate_hash(<<json_dumps_sorted(tx_data(t, q))>>)

\* mutant: the row is inserted as confirmed right away
PendingTransaction_confirmed(t, q) ==
    [tx_hash |-> TxHash(t, q), block_number |-> None, tx_type |-> TxType(q.op),
     from_entity |-> FromEntity(q), to_entity |-> ToEntity(q),
     data |-> json_dumps(TxData(t, q)), status |-> "confirmed"]

\* the row create_transaction inserts
PendingTransaction(t, q) ==
    [tx_hash |-> TxHash(t, q), block_number |-> None, tx_type |-> TxType(q.op),
     from_entity |-> FromEntity(q), to_entity |-> ToEntity(q),
     data |-> json_dumps(TxData(t, q)), status |-> "pending"]

\* mutant: the UPDATE without its WHERE clause
ConfirmTransaction_every_row(txs, tx_hash, block_number) ==
    {[t EXCEPT !.block_number = Some(block_number), !.status = "confirmed"] : t \in txs}

\* UPDATE transactions SET block_number = ?, status = 'confirmed' WHERE tx_hash = ?
ConfirmTransaction(txs, tx_hash, block_number) ==
    {IF t.tx_hash = tx_hash
        THEN [t EXCEPT !.block_number = Some(block_number), !.status = "confirmed"]
        ELSE t : t \in txs}

\* SELECT * FROM blocks ORDER BY block_number DESC LIMIT 1
LatestBlock(bs) ==
    IF bs = {} THEN None
    ELSE Some(CHOOSE b \in bs : \A c \in bs : c.block_number <= b.block_number)

\* mutant: the new block copies the last block's previous_hash instead of its hash
NewBlock_stale_previous_hash(last_block, tx_hash) ==
    LET new_block_number == last_block.block_number + 1
        previous_hash == last_block.previous_hash
        merkle_root == calculate_hash(<<tx_hash>>)
    IN [block_number |-> new_block_number,
        previous_hash |-> previous_hash,
        block_hash |-> calculate_hash(<<str(new_block_number), previous_hash, merkle_root>>),
        merkle_root |-> merkle_root,
        transactions_count |-> 1]

\* the block create_new_block builds on top of last_block for one transaction
NewBlock(last_block, tx_hash) ==
    LET new_block_number == last_block.block_number + 1
        previous_hash == last_block.block_hash
        merkle_root == calculate_hash(<<tx_hash>>)
    IN [block_number |-> new_block_number,
        previous_hash |-> previous_hash,
        block_hash |-> calculate_hash(<<str(new_block_number), previous_hash, merkle_root>>),
        merkle_root |-> merkle_root,
        transactions_count |-> 1]

\* mutant: the blocks table without its UNIQUE constraints
BlockInsertAllowed_no_unique(bs, b) == TRUE

\* blocks.block_number is UNIQUE and blocks.block_hash is UNIQUE
BlockInsertAllowed(bs, b) ==
    \A c \in bs : c.block_number # b.block_number /\ c.block_hash # b.block_hash

\* the steps after create_transaction, per handler
AfterCreateTransaction(op) ==
    CASE op = "submit" -> "get_last_block"
      [] op = "issue" -> "insert_credit"
      [] OTHER -> "apply_transfer"

\* what every step of app.py leaves alone
AppFrame == UNCHANGED <<deployment, verification_reports, lock, review>>

\* POST /ledger/submit: the request arrives and create_transaction commits its
\* transaction row as pending
App_submit_verification_report(t, ngo_id, verification_data) ==
    /\ service = "app"
    /\ MayBegin(t)
    /\ LET q == [NoReq EXCEPT !.op = "submit", !.from = ngo_id,
                              !.payload = verification_data]
       IN /\ transactions' = transactions \cup {PendingTransaction(t, q)}
          /\ req' = [req EXCEPT ![t] =
                        Forget([q EXCEPT !.pc = AfterCreateTransaction("submit"),
                                         !.tx_hash = Some(TxHash(t, q))])]
    /\ response' = NoResponse
    /\ AppFrame
    /\ UNCHANGED <<blocks, carbon_credits, credit_transfers>>
    /\ Observed

\* POST /ledger/issue: the request arrives and create_transaction commits its
\* transaction row as pending
App_issue_carbon_credits(t, ngo_id, credits_amount) ==
    /\ service = "app"
    /\ MayBegin(t)
    /\ LET q == [NoReq EXCEPT !.op = "issue", !.to = ngo_id,
                              !.amount = credits_amount]
       IN /\ transactions' = transactions \cup {PendingTransaction(t, q)}
          /\ req' = [req EXCEPT ![t] = [q EXCEPT !.pc = AfterCreateTransaction("issue"),
                                                  !.tx_hash = Some(TxHash(t, q))]]
    /\ response' = NoResponse
    /\ AppFrame
    /\ UNCHANGED <<blocks, carbon_credits, credit_transfers>>
    /\ Observed

\* the outcome of transfer_carbon_credits' checks on the credit row
TransferCheck(credits, credit_id, from_owner, credits_amount) ==
    LET found == {c \in credits : c.credit_id = credit_id /\ c.status = "active"}
    IN IF found = {} THEN "not_found"
       ELSE LET credit_info == CHOOSE c \in found : TRUE
            IN IF credit_info.owner_id # from_owner THEN "ownership_mismatch"
               ELSE IF credits_amount = None THEN "error"   \* float < None: TypeError
               ELSE IF credit_info.credits_amount < credits_amount[1] THEN "insufficient"
               ELSE "ok"

\* POST /ledger/transfer: the request arrives and the handler verifies credit
\* ownership and availability
transfer_carbon_credits(t, credit_id, from_owner, to_owner, credits_amount) ==
    /\ service = "app"
    /\ MayBegin(t)
    /\ LET q == [NoReq EXCEPT !.op = "transfer", !.credit = credit_id,
                              !.from = from_owner, !.to = to_owner,
                              !.amount = credits_amount]
           checked == TransferCheck(carbon_credits, credit_id, from_owner, credits_amount)
       IN IF checked = "ok"
             THEN /\ req' = [req EXCEPT ![t] = [q EXCEPT !.pc = "create_transaction"]]
                  /\ response' = NoResponse
             ELSE /\ req' = [req EXCEPT ![t] = Done]
                  /\ response' = [op |-> "transfer", result |-> checked]
    /\ AppFrame
    /\ UNCHANGED store
    /\ Observed

\* transfer_carbon_credits: create_transaction commits the transaction row as pending
transfer_create_transaction(t) ==
    /\ service = "app"
    /\ req[t].pc = "create_transaction"
    /\ transactions' = transactions \cup {PendingTransaction(t, req[t])}
    /\ req' = [req EXCEPT ![t].pc = AfterCreateTransaction(req[t].op),
                          ![t].tx_hash = Some(TxHash(t, req[t]))]
    /\ response' = NoResponse
    /\ AppFrame
    /\ UNCHANGED <<blocks, carbon_credits, credit_transfers>>
    /\ Observed

\* the carbon_credits row issue_carbon_credits inserts
IssuedCredit(t, q) ==
    [credit_id |-> t, ngo_id |-> q.to, credits_amount |-> q.amount[1],
     status |-> "active", owner_id |-> q.to, tx_hash |-> q.tx_hash[1]]

\* issue_carbon_credits: store the carbon credits
issue_insert_credit(t) ==
    /\ service = "app"
    /\ req[t].pc = "insert_credit"
    /\ IF req[t].amount = None
          \* credits_amount * price_per_credit raises TypeError before the INSERT
          THEN Finish(t, "error") /\ UNCHANGED carbon_credits
          ELSE /\ carbon_credits' = carbon_credits \cup {IssuedCredit(t, req[t])}
               /\ GotoForget(t, "get_last_block")
    /\ AppFrame
    /\ UNCHANGED <<blocks, transactions, credit_transfers>>
    /\ Observed

\* the two UPDATEs of transfer_carbon_credits on the credit row
TransferredCredit(c, to_owner, credits_amount) ==
    LET moved == [c EXCEPT !.owner_id = to_owner,
                           !.credits_amount = c.credits_amount - credits_amount]
    IN IF moved.credits_amount = 0 THEN [moved EXCEPT !.status = "transferred"] ELSE moved

\* transfer_carbon_credits: record the transfer and update the credit, in one commit
transfer_apply(t) ==
    /\ service = "app"
    /\ req[t].pc = "apply_transfer"
    /\ LET q == req[t]
       IN /\ credit_transfers' = credit_transfers \cup
                {[transfer_id |-> t, credit_id |-> q.credit, from_owner |-> q.from,
                  to_owner |-> q.to, credits_transferred |-> q.amount[1],
                  tx_hash |-> q.tx_hash[1], status |-> "completed"]}
          /\ carbon_credits' =
                {IF c.credit_id = q.credit THEN TransferredCredit(c, q.to, q.amount[1])
                 ELSE c : c \in carbon_credits}
    /\ GotoForget(t, "get_last_block")
    /\ AppFrame
    /\ UNCHANGED <<blocks, transactions>>
    /\ Observed

\* create_new_block: last_block = get_last_block()
get_last_block(t) ==
    /\ service = "app"
    /\ req[t].pc = "get_last_block"
    /\ IF LatestBlock(blocks) = None
          THEN Finish(t, "no_latest_block")     \* "No genesis block found"
          ELSE /\ req' = [req EXCEPT ![t].pc = "insert_block",
                                     ![t].last_block = LatestBlock(blocks)]
               /\ response' = NoResponse
    /\ AppFrame
    /\ UNCHANGED store
    /\ Observed

\* create_new_block: build the block on the block read before and INSERT it
create_new_block(t) ==
    /\ service = "app"
    /\ req[t].pc = "insert_block"
    /\ LET b == NewBlock(req[t].last_block[1], req[t].tx_hash[1])
       IN IF BlockInsertAllowed(blocks, b)
             THEN blocks' = blocks \cup {b} /\ Goto(t, "confirm")
             ELSE UNCHANGED blocks /\ Finish(t, "duplicate_block")  \* sqlite3.IntegrityError
    /\ AppFrame
    /\ UNCHANGED <<transactions, carbon_credits, credit_transfers>>
    /\ Observed

\* the handlers' last step: update the transaction with the block number, respond
confirm_transaction(t) ==
    /\ service = "app"
    /\ req[t].pc = "confirm"
    /\ transactions' = ConfirmTransaction(transactions, req[t].tx_hash[1],
                                          req[t].last_block[1].block_number + 1)
    \* submit builds its response with verification_data.get(...)
    /\ Finish(t, IF req[t].op = "submit" /\ ~IsObject(req[t].payload) THEN "error" ELSE "ok")
    /\ AppFrame
    /\ UNCHANGED <<blocks, carbon_credits, credit_transfers>>
    /\ Observed

\* a step of request t
AppStep(t) ==
    \/ \E ngo_id \in Entities, verification_data \in Payloads :
          App_submit_verification_report(t, ngo_id, verification_data)
    \/ \E ngo_id \in Entities, credits_amount \in AmountInputs :
          App_issue_carbon_credits(t, ngo_id, credits_amount)
    \/ \E credit_id \in CreditIds, from_owner \in Entities, to_owner \in Entities,
          credits_amount \in AmountInputs :
          transfer_carbon_credits(t, credit_id, from_owner, to_owner, credits_amount)
    \/ transfer_create_transaction(t)
    \/ issue_insert_credit(t)
    \/ transfer_apply(t)
    \/ get_last_block(t)
    \/ create_new_block(t)
    \/ confirm_transaction(t)

AppNext == \E t \in Ids : AppStep(t)

(***************************************************************************)
(* blockchain_api.py, class BlockchainSimulator.  Every method body runs   *)
(* inside `with self.lock`; a request that finds the lock taken waits and  *)
(* does nothing until it gets it.  Reads use their own connection; all the *)
(* writes of one method are one SQLite transaction (`with                  *)
(* sqlite3.connect(...) as conn` commits at the end and rolls back when    *)
(* the body raises).                                                       *)
(***************************************************************************)

\* blocks.block_number INTEGER PRIMARY KEY AUTOINCREMENT: the rowid SQLite gives
\* the next inserted block (nothing is ever deleted from blocks)
NextRowid(bs) == IF bs = {} THEN 1 ELSE LatestBlock(bs)[1].block_number + 1

\* the row _create_genesis_block inserts (the block number is left to SQLite)
GenesisBlock(bs) ==
    LET genesis_data == Dict(<<<<"type", "genesis">>,
                               <<"message", "EcoLedger Genesis Block">>>>)
        genesis_hash == _calculate_hash(genesis_data)
    IN [block_number |-> NextRowid(bs), previous_hash |-> SENTINEL,
        block_hash |-> genesis_hash, merkle_root |-> genesis_hash,
        transactions_count |-> 0]

\* _create_genesis_block: create the genesis block if none exists
_create_genesis_block(bs) ==
    IF LatestBlock(bs) = None THEN bs \cup {GenesisBlock(bs)} ELSE bs

\* the transaction_data dict of a method (request r's uuid4 values are r; in
\* transfer_credits q.amount holds transfer_amount)
TransactionData(r, q) ==
    CASE q.op = "submit" ->
            Dict(<<<<"type", "verification_report">>, <<"report_id", r>>,
                   <<"ngo_id", q.from>>, <<"data_hash", _calculate_hash(q.payload)>>>>)
      [] q.op = "issue" ->
            Dict(<<<<"type", "issue_credits">>, <<"credit_id", r>>, <<"ngo_id", q.from>>,
                   <<"amount", q.amount[1]>>, <<"report_id", q.report>>>>)
      [] OTHER ->
            Dict(<<<<"type", "transfer_credits">>, <<"credit_id", q.credit>>,
                   <<"from_ngo", q.from>>, <<"to_company", q.to>>,
                   <<"amount", q.amount[1]>>>>)

\* data_hash: of verification_data in submit, of transaction_data otherwise
DataHash(r, q) ==
    IF q.op = "submit" THEN _calculate_hash(q.payload)
    ELSE _calculate_hash(TransactionData(r, q))

\* new_block_number as the methods compute it from the latest block read
NewBlockNumber(q) ==
    IF q.last_block = None THEN 1 ELSE q.last_block[1].block_number + 1

\* previous_hash as the methods compute it from the latest block read
PreviousHash(q) ==
    IF q.last_block = None THEN SENTINEL ELSE q.last_block[1].block_hash

\* the block_data dict that is hashed (sort_keys sorts the nested dict as well)
block_data(r, q) ==
    Dict(<<<<"block_number", NewBlockNumber(q)>>, <<"previous_hash", PreviousHash(q)>>,
           <<"transactions", <<SortKeys(TransactionData(r, q))>>>>>>)

\* the block row a method inserts (the block number is left to SQLite)
SimNewBlock(bs, r, q) ==
    [block_number |-> NextRowid(bs),
     previous_hash |-> PreviousHash(q),
     block_hash |-> _calculate_hash(block_data(r, q)),
     merkle_root |-> DataHash(r, q),
     transactions_count |-> 1]

SimTxType(op) ==
    CASE op = "submit" -> "verification_report"
      [] op = "issue" -> "issue_credits"
      [] OTHER -> "transfer_credits"

\* datetime.now() as the INSERT into transactions reads it: the clock has ticked
\* once for every transaction committed before
Now(txs) == Cardinality(txs)

\* mutant: the row's to_org is left NULL in transfer_credits too
SimTransaction_no_to_org(r, q, now) ==
    [transaction_id |-> r, block_number |-> Some(NewBlockNumber(q)),
     transaction_type |-> SimTxType(q.op),
     from_org |-> q.from,
     to_org |-> None,
     data |-> json_dumps(IF q.op = "submit" THEN q.payload ELSE TransactionData(r, q)),
     data_hash |-> DataHash(r, q),
     timestamp |-> now,
     status |-> "confirmed"]

\* the transaction row a method inserts; status defaults to 'confirmed'
SimTransaction(r, q, now) ==
    [transaction_id |-> r, block_number |-> Some(NewBlockNumber(q)),
     transaction_type |-> SimTxType(q.op),
     from_org |-> q.from,
     to_org |-> IF q.op = "transfer" THEN Some(q.to) ELSE None,
     data |-> json_dumps(IF q.op = "submit" THEN q.payload ELSE TransactionData(r, q)),
     data_hash |-> DataHash(r, q),
     timestamp |-> now,
     status |-> "confirmed"]

\* mutant: the row stores the hash of transaction_data instead of the payload's
SimReport_transaction_hash(r, q) ==
    [report_id |-> r, ngo_id |-> q.from, verification_data |-> json_dumps(q.payload),
     data_hash |-> _calculate_hash(TransactionData(r, q)),
     final_score |-> dict_get(q.payload, "Final_Score"),
     carbon_credits |-> dict_get(q.payload, "Carbon_Credits"),
     transaction_id |-> r, status |-> "submitted"]

\* the verification_reports row submit_verification_report inserts
SimReport(r, q) ==
    [report_id |-> r, ngo_id |-> q.from, verification_data |-> json_dumps(q.payload),
     data_hash |-> DataHash(r, q),
     final_score |-> dict_get(q.payload, "Final_Score"),
     carbon_credits |-> dict_get(q.payload, "Carbon_Credits"),
     transaction_id |-> r, status |-> "submitted"]

\* the carbon_credits row issue_carbon_credits inserts; status 'available'
SimCredit(r, q) ==
    [credit_id |-> r, ngo_id |-> q.from, company_id |-> None, amount |-> q.amount[1],
     report_id |-> q.report, status |-> "available"]

\* UPDATE carbon_credits SET company_id = ?, status = 'transferred' WHERE credit_id = ?
SimTransferredCredit(c, to_company) ==
    [c EXCEPT !.company_id = Some(to_company), !.status = "transferred"]

\* transfer_amount = amount or credit_dict['amount']
TransferAmount(amount, credit_amount) ==
    IF amount = None \/ amount = Some(0) THEN credit_amount ELSE amount[1]

\* SELECT * FROM carbon_credits WHERE credit_id = ? AND status = "available"
AvailableCredit(credits, credit_id) ==
    {c \in credits : c.credit_id = credit_id /\ c.status = "available"}

\* the outcome of transfer_credits' checks on the credit row
SimTransferCheck(credits, credit_id, from_ngo, amount) ==
    LET found == AvailableCredit(credits, credit_id)
    IN IF found = {} THEN "not_found"
       ELSE LET credit == CHOOSE c \in found : TRUE
            IN IF TransferAmount(amount, credit.amount) > credit.amount
                  THEN "insufficient"
                  ELSE "ok"

\* whether the writes of a method go through: the statements that can raise
\* inside the SQLite transaction
SimWritesSucceed(q) ==
    CASE q.op = "submit" -> IsObject(q.payload)    \* verification_data.get(...)
      [] q.op = "issue" -> q.amount # None          \* carbon_credits.amount is NOT NULL
      [] OTHER -> TRUE

\* a request may take the lock
MayAcquire(r) ==
    /\ service = "sim"
    /\ MayBegin(r)
    /\ lock = 0

SimFrame == UNCHANGED <<deployment, credit_transfers, review>>

\* python blockchain_api.py: the __main__ block creates the genesis block, then serves
Sim_main ==
    /\ service = "sim" /\ entry = "main" /\ phase = "starting"
    /\ blocks' = _create_genesis_block(blocks)
    /\ phase' = "serving"
    /\ UNCHANGED <<service, entry, transactions, verification_reports, carbon_credits,
                   credit_transfers, lock, req, response, review>>
    /\ Observed

\* submit_verification_report: take the lock, _create_genesis_block()
Sim_submit_verification_report(r, ngo_id, verification_data) ==
    /\ MayAcquire(r)
    /\ lock' = r
    /\ blocks' = _create_genesis_block(blocks)
    /\ req' = [req EXCEPT ![r] = [NoReq EXCEPT !.pc = "sim_latest", !.op = "submit",
                                               !.from = ngo_id,
                                               !.payload = verification_data]]
    /\ response' = NoResponse
    /\ SimFrame
    /\ UNCHANGED <<transactions, verification_reports, carbon_credits>>
    /\ Observed

\* issue_carbon_credits: take the lock, read the latest block
Sim_issue_carbon_credits(r, ngo_id, report_id, amount) ==
    /\ MayAcquire(r)
    /\ IF LatestBlock(blocks) = None
          \* latest_block['block_number'] on None raises TypeError
          THEN /\ req' = [req EXCEPT ![r] = Done]
               /\ response' = [op |-> "issue", result |-> "no_latest_block"]
               /\ UNCHANGED lock
          ELSE /\ req' = [req EXCEPT ![r] = [NoReq EXCEPT !.pc = "sim_commit",
                              !.op = "issue", !.from = ngo_id, !.report = report_id,
                              !.amount = amount, !.last_block = LatestBlock(blocks)]]
               /\ response' = NoResponse
               /\ lock' = r
    /\ SimFrame
    /\ UNCHANGED store
    /\ Observed

\* transfer_credits: take the lock, get the credit details and check them
Sim_transfer_credits(r, credit_id, from_ngo, to_company, amount) ==
    /\ MayAcquire(r)
    /\ LET checked == SimTransferCheck(carbon_credits, credit_id, from_ngo, amount)
       IN IF checked = "ok"
             THEN /\ req' = [req EXCEPT ![r] = [NoReq EXCEPT !.pc = "sim_latest",
                                 !.op = "transfer", !.credit = credit_id,
                                 !.from = from_ngo, !.to = to_company,
                                 !.amount = Some(TransferAmount(amount,
                                     (CHOOSE c \in AvailableCredit(carbon_credits,
                                                       credit_id) : TRUE).amount))]]
                  /\ response' = NoResponse
                  /\ lock' = r
             ELSE /\ req' = [req EXCEPT ![r] = Done]
                  /\ response' = [op |-> "transfer", result |-> checked]
                  /\ UNCHANGED lock
    /\ SimFrame
    /\ UNCHANGED store
    /\ Observed

\* submit_verification_report, transfer_credits: latest_block = self._get_latest_block()
Sim_get_latest_block(r) ==
    /\ service = "sim"
    /\ req[r].pc = "sim_latest"
    /\ IF req[r].op = "submit" /\ ~IsObject(req[r].payload)
          \* _calculate_hash(verification_data) raised before: a list has no encode()
          THEN Finish(r, "error") /\ lock' = 0
          ELSE /\ req' = [req EXCEPT ![r].pc = "sim_commit",
                                     ![r].last_block = LatestBlock(blocks)]
               /\ response' = NoResponse
               /\ UNCHANGED lock
    /\ SimFrame
    /\ UNCHANGED store
    /\ Observed

\* the three methods: insert the block and the transaction, insert or update the
\* method's own row, commit; release the lock and return
Sim_commit(r) ==
    /\ service = "sim"
    /\ req[r].pc = "sim_commit"
    /\ LET q == req[r]
       IN IF SimWritesSucceed(q)
             THEN /\ blocks' = blocks \cup {SimNewBlock(blocks, r, q)}
                  /\ transactions' = transactions \cup
                                          {SimTransaction(r, q, Now(transactions))}
                  /\ verification_reports' =
                        IF q.op = "submit" THEN verification_reports \cup {SimReport(r, q)}
                        ELSE verification_reports
                  /\ carbon_credits' =
                        CASE q.op = "issue" -> carbon_credits \cup {SimCredit(r, q)}
                          [] q.op = "transfer" ->
                               {IF c.credit_id = q.credit
                                   THEN SimTransferredCredit(c, q.to) ELSE c :
                                c \in carbon_credits}
                          [] OTHER -> carbon_credits
                  /\ Finish(r, "ok")
             ELSE /\ UNCHANGED store       \* the SQLite transaction is rolled back
                  /\ Finish(r, "error")
    /\ lock' = 0
    /\ SimFrame
    /\ Observed

\* a step of request r
SimStep(r) ==
    \/ \E ngo_id \in Entities, verification_data \in Payloads :
          Sim_submit_verification_report(r, ngo_id, verification_data)
    \/ \E ngo_id \in Entities, report_id \in ReportIds, amount \in AmountInputs :
          Sim_issue_carbon_credits(r, ngo_id, report_id, amount)
    \/ \E credit_id \in CreditIds, from_ngo \in Entities, to_company \in Entities,
          amount \in AmountInputs :
          Sim_transfer_credits(r, credit_id, from_ngo, to_company, amount)
    \/ Sim_get_latest_block(r)
    \/ Sim_commit(r)

SimNext == Sim_main \/ \E r \in Ids : SimStep(r)

(***************************************************************************)
(* The read-only routes.  Each runs one SELECT, so it answers from one     *)
(* state of the store; it is a function of the store.                      *)
(***************************************************************************)

\* app.py GET /ledger/credits: LIMIT's default
DefaultLimit == 50

\* app.py GET /ledger/credits?owner=..&status=..: the credits of that status (and
\* owner, if one is given), the newest first, at most DefaultLimit of them
list_carbon_credits(owner_id, status) ==
    LET rows == {c \in carbon_credits :
                    /\ c.status = status
                    /\ owner_id # None => c.owner_id = owner_id[1]}
    IN IF Cardinality(rows) <= DefaultLimit THEN rows
       ELSE CHOOSE kept \in SUBSET rows : Cardinality(kept) = DefaultLimit

\* blockchain_api.py GET /ledger/credits/available: the available credits, joined
\* with the report they name
get_available_credits ==
    {cc \in carbon_credits :
        /\ cc.status = "available"
        /\ \E vr \in verification_reports : cc.report_id = vr.report_id}

\* blockchain_api.py query_report: the report joined with its transaction and that
\* transaction's block, its verification_data parsed; None if there is no such row
query_report(report_id) ==
    LET rows == {vr \in verification_reports :
                    /\ vr.report_id = report_id
                    /\ \E t \in transactions :
                          /\ vr.transaction_id = t.transaction_id
                          /\ \E b \in blocks : t.block_number = Some(b.block_number)}
    IN IF rows = {} THEN None
       ELSE LET vr == CHOOSE row \in rows : TRUE
            IN Some([report_id |-> vr.report_id, ngo_id |-> vr.ngo_id,
                     verification_data |-> json_loads(vr.verification_data),
                     data_hash |-> vr.data_hash, transaction_id |-> vr.transaction_id])

\* blockchain_api.py GET /ledger/history/<org_id>: the transactions from or to the
\* organization, joined with their block, ORDER BY timestamp DESC, data parsed
get_organization_history(org_id) ==
    LET rows == {t \in transactions :
                    /\ \E b \in blocks : t.block_number = Some(b.block_number)
                    /\ t.from_org = org_id \/ t.to_org = Some(org_id)}
    IN [i \in 1..Cardinality(rows) |->
          LET t == CHOOSE row \in rows :
                      Cardinality({o \in rows : o.timestamp > row.timestamp}) = i - 1
          IN [t EXCEPT !.data = json_loads(t.data)]]

(***************************************************************************)
(* backend/ai_apis/dynamic_dataset_api.py: the admin review of a           *)
(* verification.  The service keeps its own database; its handlers take no *)
(* lock and Flask serves each request in its own thread.  Each `with       *)
(* sqlite3.connect(...)` block of approve_verification is a transaction of *)
(* its own, so each is one step; the POST to the ledger is another.        *)
(***************************************************************************)
MaxVerifications == 2    \* verifications created in one behaviour
MaxCalls == 2            \* /admin/approve calls served in one behaviour

VerificationIds == 1..MaxVerifications
AdminCalls == 1..MaxCalls
Admins == {"admin1", "admin2"}
\* the credits the metrics of a verification's results come to (0: no such metric)
Estimates == {0, MaxAmount}

NoCall == [pc |-> "idle", verification_id |-> 0, ngo_id |-> "", admin_id |-> "",
           approved |-> FALSE, credits_issued |-> 0]
CallDone == [NoCall EXCEPT !.pc = "done"]

\* what every step of dynamic_dataset_api.py leaves alone
ReviewFrame == UNCHANGED <<deployment, store, lock, req, stats>>

\* the row _store_verification_result inserts
Verification(verification_id, ngo_id, estimate) ==
    [verification_id |-> verification_id, ngo_id |-> ngo_id, estimate |-> estimate,
     status |-> "pending_admin_review", admin_reviewed_by |-> None,
     credits_issued |-> 0]

\* POST /dataset/verify: process_dataset stores its result (verification_id is the
\* PRIMARY KEY: a second row of the same id is turned down)
process_dataset(verification_id, ngo_id, estimate) ==
    /\ \A v \in verifications : v.verification_id # verification_id
    /\ verifications' = verifications \cup {Verification(verification_id, ngo_id, estimate)}
    /\ response' = [op |-> "verify", result |-> "ok"]
    /\ UNCHANGED <<admin, posts>>
    /\ ReviewFrame

\* credits_issued as approve_verification computes it
CreditsIssued(approved, credits_to_issue, estimate) ==
    IF ~approved THEN 0
    ELSE IF credits_to_issue # None THEN credits_to_issue[1]
    ELSE estimate

\* POST /admin/approve: the call arrives, gets the verification record and checks
\* that it is pending review
approve_verification(a, verification_id, admin_id, approved, credits_to_issue) ==
    /\ admin[a].pc = "idle"
    /\ \A b \in AdminCalls : b < a => admin[b].pc # "idle"
    /\ LET rows == {v \in verifications : v.verification_id = verification_id}
       IN IF rows = {}
             THEN /\ admin' = [admin EXCEPT ![a] = CallDone]
                  /\ response' = [op |-> "approve", result |-> "not_found"]
          ELSE LET verification == CHOOSE v \in rows : TRUE
               IN IF verification.status # "pending_admin_review"
                     THEN /\ admin' = [admin EXCEPT ![a] = CallDone]
                          /\ response' = [op |-> "approve", result |-> "not_pending"]
                     ELSE /\ admin' = [admin EXCEPT ![a] =
                                [pc |-> "update", verification_id |-> verification_id,
                                 ngo_id |-> verification.ngo_id, admin_id |-> admin_id,
                                 approved |-> approved,
                                 credits_issued |-> CreditsIssued(approved,
                                     credits_to_issue, verification.estimate)]]
                          /\ response' = NoResponse
    /\ UNCHANGED <<verifications, posts>>
    /\ ReviewFrame

\* UPDATE verifications SET status = ?, admin_reviewed_by = ?, credits_issued = ?
\* WHERE verification_id = ?
Reviewed(v, q) ==
    [v EXCEPT !.status = IF q.approved THEN "approved" ELSE "rejected",
              !.admin_reviewed_by = Some(q.admin_id),
              !.credits_issued = q.credits_issued]

\* approve_verification: update the verification status; return unless credits are
\* to be issued
approve_update(a) ==
    /\ admin[a].pc = "update"
    /\ verifications' = {IF v.verification_id = admin[a].verification_id
                            THEN Reviewed(v, admin[a]) ELSE v : v \in verifications}
    /\ IF admin[a].approved /\ admin[a].credits_issued > 0
          THEN /\ admin' = [admin EXCEPT ![a].pc = "issue"]
               /\ response' = NoResponse
          ELSE /\ admin' = [admin EXCEPT ![a] = CallDone]
               /\ response' = [op |-> "approve", result |-> "ok"]
    /\ UNCHANGED posts
    /\ ReviewFrame

\* approve_verification: requests.post('http://localhost:5006/ledger/issue', ...),
\* then return (a failure of the ledger is only printed)
approve_issue(a) ==
    /\ admin[a].pc = "issue"
    /\ posts' = Append(posts, [ngo_id |-> admin[a].ngo_id,
                               report_id |-> admin[a].verification_id,
                               amount |-> admin[a].credits_issued])
    /\ admin' = [admin EXCEPT ![a] = CallDone]
    /\ response' = [op |-> "approve", result |-> "ok"]
    /\ UNCHANGED verifications
    /\ ReviewFrame

ReviewNext ==
    \/ \E verification_id \in VerificationIds, ngo_id \in Entities, estimate \in Estimates :
          process_dataset(verification_id, ngo_id, estimate)
    \/ \E a \in AdminCalls :
          \/ \E verification_id \in VerificationIds, admin_id \in Admins,
                approved \in BOOLEAN, credits_to_issue \in AmountInputs :
                approve_verification(a, verification_id, admin_id, approved,
                                     credits_to_issue)
          \/ approve_update(a)
          \/ approve_issue(a)

(***************************************************************************)
(* The initial states: the state after the module is loaded (app.py runs   *)
(* init_database(), blockchain_api.py constructs BlockchainSimulator()).   *)
(***************************************************************************)

\* the block create_genesis_block inserts (app.py)
AppGenesisBlock ==
    [block_number |-> 0, previous_hash |-> SENTINEL,
     block_hash |-> calculate_hash(<<SENTINEL, json_dumps_sorted(Dict(
                        <<<<"type", "genesis">>,
                          <<"message", "EcoLedger Genesis Block - Carbon Credit Verification System">>>>))>>),
     merkle_root |-> <<"genesis">>, transactions_count |-> 0]

\* the earlier run, if any: ngoA submitted a report (blockchain_api.py only; request
\* -1) and was issued MaxAmount credits (request 0)
EarlierSubmit == [NoReq EXCEPT !.op = "submit", !.from = "ngoA", !.payload = Dict(<<<<"Final_Score", 1>>, <<"Carbon_Credits", 2>>>>)]
EarlierIssue == [NoReq EXCEPT !.op = "issue", !.from = "ngoA", !.to = "ngoA",
                              !.report = 0 - 1, !.amount = Some(MaxAmount)]
AppEarlierIssue == [EarlierIssue EXCEPT !.tx_hash = Some(TxHash(0, EarlierIssue))]

InitApp ==
    /\ service = "app" /\ entry = "main" /\ phase = "serving"
    /\ verification_reports = {}
    /\ credit_transfers = {}
    /\ \/ \* init_database() finds no block and creates the genesis block
          /\ blocks = {AppGenesisBlock}
          /\ transactions = {}
          /\ carbon_credits = {}
       \/ \* the store of an earlier run that served one issue request
          /\ blocks = {AppGenesisBlock, NewBlock(AppGenesisBlock, TxHash(0, EarlierIssue))}
          /\ transactions =
                ConfirmTransaction({PendingTransaction(0, EarlierIssue)},
                                   TxHash(0, EarlierIssue), 1)
          /\ carbon_credits = {IssuedCredit(0, AppEarlierIssue)}

\* the blocks of the earlier run of blockchain_api.py
SimEarlierGenesis == _create_genesis_block({})
SimEarlierSubmit == [EarlierSubmit EXCEPT !.last_block = LatestBlock(SimEarlierGenesis)]
SimEarlierBlocks2 ==
    SimEarlierGenesis \cup {SimNewBlock(SimEarlierGenesis, 0 - 1, SimEarlierSubmit)}
SimEarlierIssue == [EarlierIssue EXCEPT !.last_block = LatestBlock(SimEarlierBlocks2)]

InitSim ==
    /\ service = "sim" /\ entry \in {"main", "wsgi"}
    /\ phase = IF entry = "main" THEN "starting" ELSE "serving"
    /\ credit_transfers = {}
    /\ \/ \* BlockchainSimulator.__init__ creates the tables only
          /\ blocks = {}
          /\ transactions = {}
          /\ verification_reports = {}
          /\ carbon_credits = {}
       \/ \* the store of an earlier run that served one submit and one issue request
          /\ blocks = SimEarlierBlocks2 \cup
                         {SimNewBlock(SimEarlierBlocks2, 0, SimEarlierIssue)}
          /\ transactions = {SimTransaction(0 - 1, SimEarlierSubmit, 0),
                             SimTransaction(0, SimEarlierIssue, 1)}
          /\ verification_reports = {SimReport(0 - 1, SimEarlierSubmit)}
          /\ carbon_credits = {SimCredit(0, SimEarlierIssue)}

Init ==
    /\ InitApp \/ InitSim
    /\ lock = 0
    /\ req = [r \in Ids |-> NoReq]
    /\ response = NoResponse
    /\ stats = NoStats
    \* dynamic_dataset_api.py creates its table; no verification has been stored
    /\ verifications = {}
    /\ admin = [a \in AdminCalls |-> NoCall]
    /\ posts = <<>>

\* the ledger service serving its state-changing requests
Next == AppNext \/ SimNext

Spec == Init /\ [][Next]_vars

\* the ledger service serving one call of its statistics route while it serves its
\* first state-changing request
NextStats == AppStep(1) \/ Sim_main \/ SimStep(1) \/ StatsNext

SpecStats == Init /\ [][NextStats]_vars

\* the dataset service serving verifications and admin reviews
SpecReview == Init /\ [][ReviewNext]_vars

(***************************************************************************)
(* Properties                                                              *)
(***************************************************************************)

\* C1: hash-chain linkage: every block after the first carries, as previous_hash, the
\* block_hash of the block numbered one below it.
C1_HashChainLinked ==
    \A b \in blocks :
        (\E c \in blocks : c.block_number < b.block_number) =>
            \E p \in blocks : /\ p.block_number = b.block_number - 1
                              /\ p.block_hash = b.previous_hash

\* app.py has appended two blocks of this run, after two requests raced for one number
C1_Witness ==
    /\ service = "app"
    /\ Cardinality(blocks) >= 3
    /\ \E t \in transactions : t.status = "pending"

\* no request has been served yet and the store holds nothing of an earlier run
FreshStore ==
    /\ phase = "serving"
    /\ transactions = {}
    /\ \A r \in Ids : req[r].pc = "idle"

\* C2: genesis invariant: a fresh store, after initialization and before any request,
\* holds exactly one block: number 0, previous hash the sentinel '0', zero transactions.
C2_GenesisInvariant ==
    FreshStore =>
        /\ Cardinality(blocks) = 1
        /\ \A b \in blocks : /\ b.block_number = 0
                             /\ b.previous_hash = SENTINEL
                             /\ b.transactions_count = 0

\* C3: genesis precedes every operation: a request that is being served runs against a
\* chain that holds a block, and no request fails for lack of a latest block.
C3_GenesisPrecedesOperations ==
    /\ \A r \in Ids : InFlight(r) => blocks # {}
    /\ response.result # "no_latest_block"

\* the block numbers are consecutive: no gaps
NoGaps ==
    \A b \in blocks :
        (\E c \in blocks : c.block_number < b.block_number) =>
            \E p \in blocks : p.block_number = b.block_number - 1

\* C4: concurrent state-changing requests whose preconditions hold all complete
\* successfully (none is turned down at the block insert) and the blocks they leave
\* are numbered consecutively.
C4_ConcurrentRequestsAllSucceed ==
    /\ NoGaps
    /\ response.result # "duplicate_block"

\* C5: no two stored blocks share a block number or a block hash, and no two blocks
\* were appended on top of the same latest block.
C5_NoDoubleAssignment ==
    \A b \in blocks, c \in blocks :
        b # c => /\ b.block_number # c.block_number
                 /\ b.block_hash # c.block_hash
                 /\ b.previous_hash # c.previous_hash

\* two requests of app.py read the same latest block and the second insert was rejected
C5_Witness ==
    /\ service = "app"
    /\ response.result = "duplicate_block"

\* C6: the state-changing operations exclude each other over their whole
\* read-modify-write sequence: no two requests are both between their first store
\* access and their last.
C6_MutualExclusion ==
    \A r1 \in Ids, r2 \in Ids : InFlight(r1) /\ InFlight(r2) => r1 = r2

\* tx_hash is the hash create_transaction made for request r: SHA-256 is modelled
\* collision free, so the digest names the tx_data it was made of
TxHashOf(tx_hash, r) ==
    dict_get(json_loads(tx_hash[2][2][1]), "tx_id") = Some(uuid4(r))

\* block b was built for request r: its merkle root covers the request's transaction
BlockOf(b, r) ==
    IF service = "app"
       THEN b.transactions_count > 0 /\ TxHashOf(b.merkle_root[2][2][1], r)
       ELSE \E t \in transactions : t.transaction_id = r /\ t.data_hash = b.merkle_root

\* the store holds no row of request r: no transaction, block, report or credit of
\* its own and no transfer record (which is committed together with the credit update)
NoRowsOf(r) ==
    /\ \A t \in transactions :
          IF service = "app" THEN ~TxHashOf(t.tx_hash, r) ELSE t.transaction_id # r
    /\ \A b \in blocks : ~BlockOf(b, r)
    /\ \A v \in verification_reports : v.report_id # r
    /\ \A c \in carbon_credits : c.credit_id # r
    /\ \A x \in credit_transfers : x.transfer_id # r

\* C7: atomic abort: when a submit, issue or transfer fails at any step, the store holds
\* nothing of it: no block, no transaction (pending or confirmed), no report, no credit,
\* no transfer record and no credit update.
C7_AtomicAbort ==
    [][\A r \in Ids :
          (req[r].pc # "done" /\ req'[r].pc = "done" /\ response'.result # "ok")
              => NoRowsOf(r)']_vars

\* C8: every confirmed transaction has a block number for which a block row exists.
C8_ConfirmedHasBlock ==
    \A t \in transactions :
        t.status = "confirmed" =>
            /\ t.block_number # None
            /\ \E b \in blocks : b.block_number = t.block_number[1]

\* app.py holds a confirmed transaction of this run next to a pending one
C8_Witness ==
    /\ service = "app"
    /\ \E t \in transactions : t.status = "confirmed" /\ ~TxHashOf(t.tx_hash, 0)
    /\ \E t \in transactions : t.status = "pending"

\* C9: every non-genesis block has a confirmed transaction whose block number is that
\* block's number, in every state a reader can observe.
C9_BlockHasConfirmedTransaction ==
    \A b \in blocks :
        b.transactions_count > 0 =>
            \E t \in transactions : /\ t.status = "confirmed"
                                    /\ t.block_number = Some(b.block_number)

\* the credit is there, can be transferred, and is owned by someone else than from_owner
OwnedByOther(credit_id, from_owner) ==
    \E c \in carbon_credits :
        /\ c.credit_id = credit_id
        /\ IF service = "app" THEN c.status = "active" /\ c.owner_id # from_owner
           ELSE c.status = "available" /\ c.ngo_id # from_owner

\* C10: ownership precondition: a transfer requested with a from-owner that is not the
\* credit's current owner fails with an ownership-mismatch error and changes nothing.
C10_OwnershipPrecondition ==
    [][\A r \in Ids, credit_id \in CreditIds, from_owner \in Entities,
          to_owner \in Entities, amount \in AmountInputs :
          ( /\ OwnedByOther(credit_id, from_owner)
            /\ \/ transfer_carbon_credits(r, credit_id, from_owner, to_owner, amount)
               \/ Sim_transfer_credits(r, credit_id, from_owner, to_owner, amount) )
          => (response'.result = "ownership_mismatch" /\ UNCHANGED store)]_vars

\* from_owner owns the credit, the credit can be transferred, and the amount asked
\* exceeds what the credit holds
ExceedsRemaining(credit_id, from_owner, amount) ==
    /\ amount # None
    /\ \E c \in carbon_credits :
          /\ c.credit_id = credit_id
          /\ IF service = "app"
                THEN c.status = "active" /\ c.owner_id = from_owner
                     /\ amount[1] > c.credits_amount
                ELSE c.status = "available" /\ c.ngo_id = from_owner
                     /\ amount[1] > c.amount

\* C11: sufficiency precondition: a transfer whose amount exceeds the credit's remaining
\* amount fails with an insufficient-balance error and leaves the whole store unchanged,
\* every time it is asked.
C11_SufficiencyPrecondition ==
    [][\A r \in Ids, credit_id \in CreditIds, from_owner \in Entities,
          to_owner \in Entities, amount \in AmountInputs :
          ( /\ ExceedsRemaining(credit_id, from_owner, amount)
            /\ \/ transfer_carbon_credits(r, credit_id, from_owner, to_owner, amount)
               \/ Sim_transfer_credits(r, credit_id, from_owner, to_owner, amount) )
          => (response'.result = "insufficient" /\ UNCHANGED store)]_vars

\* the amount a credit row holds
CreditAmount(c) == IF service = "app" THEN c.credits_amount ELSE c.amount

\* C12: a credit's stored amount never goes negative.
C12_AmountNeverNegative ==
    \A c \in carbon_credits : CreditAmount(c) >= 0

\* the issuances on record, as <<credit id, ngo, amount issued>>: app.py's
\* credit_issuance transactions, blockchain_api.py's issue_credits transactions
Issuances ==
    IF service = "app"
       THEN {<<dict_get(json_loads(t.data), "credit_id")[1], t.to_entity,
               dict_get(json_loads(t.data), "credits_amount")[1], t.status>> :
             t \in {u \in transactions : u.tx_type = "credit_issuance"}}
       ELSE {<<dict_get(json_loads(t.data), "credit_id")[1], t.from_org,
               Some(dict_get(json_loads(t.data), "amount")[1]), t.status>> :
             t \in {u \in transactions : u.transaction_type = "issue_credits"}}

\* the transfers on record of a credit, as <<transfer, amount>>: app.py's
\* credit_transfers rows, blockchain_api.py's transfer_credits transactions
RecordedTransfers(credit_id) ==
    IF service = "app"
       THEN {<<x.transfer_id, x.credits_transferred>> :
             x \in {y \in credit_transfers : y.credit_id = credit_id}}
       ELSE {<<t.transaction_id, dict_get(json_loads(t.data), "amount")[1]>> :
             t \in {u \in transactions :
                       /\ u.transaction_type = "transfer_credits"
                       /\ dict_get(json_loads(u.data), "credit_id") = Some(credit_id)}}

\* C13: for every credit, the amounts of its recorded transfers sum to at most the
\* amount originally issued for it.
C13_TransfersWithinIssued ==
    \A i \in Issuances :
        i[3] # None => SumOfAmounts(RecordedTransfers(i[1])) <= i[3][1]

\* C14: issue-then-list: a credit whose issue succeeded and that no transfer has touched
\* is in the available-credits listing (of its ngo, where the listing takes an owner)
\* with the issued amount, the issuing ngo as owner and the active/available status.
C14_IssueThenList ==
    \A i \in Issuances :
        (i[4] = "confirmed" /\ RecordedTransfers(i[1]) = {}) =>
            IF service = "app"
               THEN \E c \in list_carbon_credits(Some(i[2]), "active") :
                       /\ c.credit_id = i[1]
                       /\ Some(c.credits_amount) = i[3]
                       /\ c.owner_id = i[2]
                       /\ c.status = "active"
               ELSE \E c \in get_available_credits :
                       /\ c.credit_id = i[1]
                       /\ Some(c.amount) = i[3]
                       /\ c.ngo_id = i[2]
                       /\ c.status = "available"

\* C15: referential integrity of issuance: every credit's originating report id
\* references an existing verification report, and no issue that names a report that
\* does not exist is carried on.
C15_ReportExists ==
    service = "sim" =>
       /\ \A c \in carbon_credits :
             \E v \in verification_reports : v.report_id = c.report_id
       /\ \A r \in Ids :
             (InFlight(r) /\ req[r].op = "issue") =>
                \E v \in verification_reports : v.report_id = req[r].report

\* Python's == on two JSON values: dicts are equal when their items are, in any order
DeepEqual(a, b) == a.kind = b.kind /\ Items(a) = Items(b)

\* C16: submit/query round-trip: once submit has returned report id r, query_report(r)
\* returns, then and ever after, a payload equal to the submitted one whose recomputed
\* hash is the stored data hash and the data hash submit returned.
C16_SubmitQueryRoundTrip ==
    [][/\ \A r \in Ids :
             (req[r].pc = "sim_commit" /\ req[r].op = "submit" /\ response'.result = "ok")
             => /\ query_report(r)' # None
                /\ DeepEqual(query_report(r)'[1].verification_data, req[r].payload)
                /\ _calculate_hash(query_report(r)'[1].verification_data)
                      = query_report(r)'[1].data_hash
                /\ query_report(r)'[1].data_hash = DataHash(r, req[r])
       /\ \A id \in ReportIds :
             query_report(id) # None => query_report(id)' = query_report(id)]_vars

\* a report submitted in this run, its payload's keys not in sorted order, is on
\* record and a later request has been carried out
C16_Witness ==
    /\ service = "sim"
    /\ \E v \in verification_reports :
          /\ v.report_id \in Ids
          /\ json_loads(v.verification_data) # SortKeys(json_loads(v.verification_data))
          /\ \E t \in transactions, u \in transactions :
                /\ t.transaction_id = v.transaction_id
                /\ u.timestamp > t.timestamp
    /\ response.result = "ok" /\ response.op # "submit"

\* the request involves the organization: as submitter, as the ngo credits are issued
\* to, as the source or as the destination of a transfer
Involves(q, org_id) == q.from = org_id \/ (q.op = "transfer" /\ q.to = org_id)

HistoryIds(org_id) ==
    {get_organization_history(org_id)[i].transaction_id :
        i \in DOMAIN get_organization_history(org_id)}

\* C17: history completeness: get_organization_history(E) holds exactly the
\* transactions of the successful operations that involve E, each once, ordered by
\* timestamp: every step adds to it the operation that succeeded in that step if it
\* involves E, and nothing else.
C17_HistoryComplete ==
    [][\A org_id \in Entities :
          LET history == get_organization_history(org_id)'
              succeeded == {r \in Ids : /\ req[r].pc = "sim_commit"
                                        /\ req'[r].pc = "done"
                                        /\ response'.result = "ok"
                                        /\ Involves(req[r], org_id)}
          IN service = "sim" =>
                /\ HistoryIds(org_id)' = HistoryIds(org_id) \cup succeeded
                /\ Len(history) = Cardinality(HistoryIds(org_id)')
                /\ \A i \in DOMAIN history, j \in DOMAIN history :
                      i < j => history[i].timestamp >= history[j].timestamp]_vars

\* an organization's history holds two transactions, the later one a transfer it
\* received from the other organization
C17_Witness ==
    /\ service = "sim"
    /\ \E org_id \in Entities :
          LET history == get_organization_history(org_id)
          IN /\ Len(history) >= 2
             /\ history[1].transaction_type = "transfer_credits"
             /\ history[1].to_org = Some(org_id)
             /\ history[1].from_org # org_id

\* C18: tamper-evidence: for every stored transaction and every stored verification
\* report, the stored content hash is the hash of the key-sorted serialization of the
\* payload stored in the same row.
C18_TamperEvidence ==
    IF service = "app"
       THEN \A t \in transactions :
               t.tx_hash = calculate_hash(<<json_dumps_sorted(json_loads(t.data))>>)
       ELSE /\ \A t \in transactions :
                  t.data_hash = _calculate_hash(json_loads(t.data))
            /\ \A v \in verification_reports :
                  v.data_hash = _calculate_hash(json_loads(v.verification_data))

\* the key of a transaction row
TxKey(t) == IF service = "app" THEN t.tx_hash ELSE Some(t.transaction_id)

\* C19: transaction lifecycle: a transaction's status only moves pending -> confirmed,
\* its block number is null exactly while it is pending, and once it is confirmed no
\* step changes its status or its block number.
C19_TransactionLifecycle ==
    [][/\ \A t \in transactions \cup transactions' :
             /\ t.status \in {"pending", "confirmed"}
             /\ t.status = "pending" <=> t.block_number = None
       /\ \A t \in transactions :
             \E u \in transactions' :
                /\ TxKey(u) = TxKey(t)
                /\ \/ u = t
                   \/ /\ t.status = "pending"
                      /\ u = [t EXCEPT !.status = "confirmed",
                                       !.block_number = u.block_number]]_vars

\* app.py has confirmed the transactions of two requests of this run, one after the
\* other
C19_Witness ==
    /\ service = "app"
    /\ Cardinality({t \in transactions :
                       t.status = "confirmed" /\ ~TxHashOf(t.tx_hash, 0)}) = 2

\* the current owner a credit row names
CreditOwner(c) == IF service = "app" THEN Some(c.owner_id) ELSE c.company_id

\* request r's transfer takes effect in this step: app.py's update of the credit,
\* blockchain_api.py's commit
TransferTakesEffect(r) ==
    /\ req[r].op = "transfer"
    /\ \/ req[r].pc = "apply_transfer" /\ req'[r].pc # "apply_transfer"
       \/ req[r].pc = "sim_commit" /\ response'.result = "ok"

\* C20: transfer effect: a transfer of amount a from `from` to `to` leaves the credit
\* with its amount before the transfer minus a and with `to` as its current owner.
C20_TransferEffect ==
    [][\A r \in Ids :
          TransferTakesEffect(r) =>
             \A c \in carbon_credits :
                c.credit_id = req[r].credit =>
                   \E d \in carbon_credits' :
                      /\ d.credit_id = c.credit_id
                      /\ CreditAmount(d) = CreditAmount(c) - req[r].amount[1]
                      /\ CreditOwner(d) = Some(req[r].to)]_vars

\* the status of a credit that can be transferred
Transferable == IF service = "app" THEN "active" ELSE "available"

\* C21: credit status tracks exhaustion: a successful transfer that leaves nothing of
\* the credit's amount sets its status to transferred, and one that leaves a positive
\* remainder leaves the credit in the active/available status.
C21_StatusTracksExhaustion ==
    [][\A r \in Ids :
          TransferTakesEffect(r) =>
             \A c \in carbon_credits :
                c.credit_id = req[r].credit =>
                   \E d \in carbon_credits' :
                      /\ d.credit_id = c.credit_id
                      /\ LET remainder == CreditAmount(c) - req[r].amount[1]
                         IN /\ remainder = 0 => d.status = "transferred"
                            /\ remainder > 0 => d.status = Transferable]_vars

\* the blocks built for request r: app.py's merkle root covers the request's
\* transaction hash, blockchain_api.py's transaction row names its block
BlocksOf(r) ==
    IF service = "app"
       THEN {b \in blocks : BlockOf(b, r)}
       ELSE {b \in blocks : \E t \in transactions :
                                /\ t.transaction_id = r
                                /\ t.block_number = Some(b.block_number)}

\* the confirmed transactions of request r
ConfirmedOf(r) ==
    {t \in transactions :
        /\ t.status = "confirmed"
        /\ IF service = "app" THEN TxHashOf(t.tx_hash, r) ELSE t.transaction_id = r}

\* C22: one commit = one block: a submit, issue or transfer that succeeds has appended
\* exactly one block, of transaction count 1, and has one confirmed transaction, in
\* that block; one that fails has appended no block; and whenever no request is being
\* served the chain holds as many non-genesis blocks as confirmed transactions.
C22_OneCommitOneBlock ==
    [][/\ \A r \in Ids :
             (req[r].pc # "done" /\ req'[r].pc = "done") =>
                IF response'.result = "ok"
                   THEN /\ Cardinality(BlocksOf(r)') = 1
                        /\ Cardinality(ConfirmedOf(r)') = 1
                        /\ \A b \in BlocksOf(r)', t \in ConfirmedOf(r)' :
                              /\ b.transactions_count = 1
                              /\ t.block_number = Some(b.block_number)
                   ELSE BlocksOf(r)' = {}
       /\ (\A r \in Ids : ~InFlight(r)') =>
             Cardinality({b \in blocks' : b.transactions_count > 0})
                = Cardinality({t \in transactions' : t.status = "confirmed"})]_vars

\* C23: chain statistics are a snapshot: the numbers one get_blockchain_stats /
\* get_blockchain_info call returns are the statistics of one state the store was in
\* during the call, also when a state-changing request commits between its SELECTs.
C23_StatisticsAreSnapshot ==
    [][(stats.next = 5 /\ stats'.next = 6) => StatsResult \in stats.seen]_vars

\* no credit of that id is in the active/available status
NotTransferable(credit_id) ==
    \A c \in carbon_credits : c.credit_id = credit_id => c.status # Transferable

\* C24: a transfer naming a credit that does not exist or is not active/available
\* fails as not found and changes nothing; and a credit whose status is transferred is
\* terminal: no step changes its amount, its owner or its status.
C24_TransferredIsTerminal ==
    [][/\ \A r \in Ids, credit_id \in CreditIds, from_owner \in Entities,
             to_owner \in Entities, amount \in AmountInputs :
             ( /\ NotTransferable(credit_id)
               /\ \/ transfer_carbon_credits(r, credit_id, from_owner, to_owner, amount)
                  \/ Sim_transfer_credits(r, credit_id, from_owner, to_owner, amount) )
             => (response'.result = "not_found" /\ UNCHANGED store)
       /\ \A c \in carbon_credits :
             c.status = "transferred" => c \in carbon_credits']_vars

\* C25: transfer amount selection in transfer_credits: with the amount omitted the
\* transfer moves the credit's full amount, with an amount a <= credit.amount given it
\* moves exactly a; and the transaction recorded carries the amount moved.
C25_TransferAmountSelection ==
    [][/\ \A r \in Ids, credit_id \in CreditIds, from_ngo \in Entities,
             to_company \in Entities, amount \in AmountInputs :
             \A c \in AvailableCredit(carbon_credits, credit_id) :
                ( /\ amount # None => amount[1] <= c.amount
                  /\ Sim_transfer_credits(r, credit_id, from_ngo, to_company, amount) )
                => /\ req'[r].pc = "sim_latest"
                   /\ req'[r].amount = IF amount = None THEN Some(c.amount) ELSE amount
       /\ \A r \in Ids :
             (req[r].pc = "sim_commit" /\ req[r].op = "transfer") =>
                \E t \in transactions' :
                   /\ t.transaction_id = r
                   /\ dict_get(json_loads(t.data), "amount") = req[r].amount]_vars

\* C26: issuance amount precondition: an issue with an amount that is zero or negative
\* is rejected: no step creates a credit row with an amount that is not > 0, and no
\* step records an issuance transaction of such an amount.
C26_IssuancePositive ==
    [][/\ \A c \in carbon_credits' :
             (\A d \in carbon_credits : d.credit_id # c.credit_id) => CreditAmount(c) > 0
       /\ \A i \in Issuances' : i[3] # None => i[3][1] > 0]_vars

\* C27: no double spend under concurrency: a transfer takes effect only on the state
\* its check would accept: when its update is applied the credit is still in the
\* active/available status, still owned by the source the request names (app.py) and
\* still holds the amount asked for; so two transfers of the full balance never both
\* succeed.
C27_NoDoubleSpend ==
    [][\A r \in Ids :
          TransferTakesEffect(r) =>
             \E c \in carbon_credits :
                /\ c.credit_id = req[r].credit
                /\ c.status = Transferable
                /\ service = "app" => c.owner_id = req[r].from
                /\ CreditAmount(c) >= req[r].amount[1]]_vars

\* the pending transactions request r's create_transaction inserted
PendingOf(r) ==
    {t \in transactions : t.status = "pending" /\ TxHashOf(t.tx_hash, r)}

\* C28: no dangling pending transaction in app.py: once the request that created a
\* transaction has returned, successfully or with an error, the transaction is no
\* longer pending.
C28_NoDanglingPending ==
    service = "app" => \A r \in Ids : req[r].pc = "done" => PendingOf(r) = {}

\* C29: conservation per credit: for each credit the stored remaining amount plus the
\* amounts of all the transfers recorded for it equals the amount originally issued.
C29_Conservation ==
    \A c \in carbon_credits :
        \E i \in Issuances :
            /\ i[1] = c.credit_id
            /\ i[3] = Some(CreditAmount(c) + SumOfAmounts(RecordedTransfers(c.credit_id)))

\* the POST /ledger/issue requests sent for a verification
PostsFor(verification_id) ==
    {i \in DOMAIN posts : posts[i].report_id = verification_id}

\* C30: the admin decision is taken at most once: a verification that is no longer
\* pending_admin_review is never changed again, and at most one /ledger/issue request
\* is ever sent for a verification, also when /admin/approve calls run concurrently.
C30_DecisionTakenOnce ==
    [][/\ \A v \in verifications :
             v.status # "pending_admin_review" => v \in verifications'
       /\ \A verification_id \in VerificationIds :
             Cardinality(PostsFor(verification_id)') <= 1]_vars

====
